---- MODULE Spec2Model ----
(***************************************************************************)
(* State-machine model of the Avanza client (class Avanza, lib/index.js):  *)
(* the Bayeux transport over a websocket, the subscription registry, the   *)
(* session authenticator with its renewal timer, and the backoff helper.   *)
(*                                                                         *)
(* Every method of the class is an operator from a state record to a state *)
(* record, written statement by statement after the source; an action of   *)
(* the model is one run-to-completion callback of the Node event loop (a   *)
(* caller's call, a socket event, a timer firing, a promise settling).     *)
(***************************************************************************)
EXTENDS Integers, Sequences, FiniteSets, TLC

\* ---------------------------------------------------------------- bounds
\* Each specification explores the same program under its own limits: what
\* the caller passes in, and how much of each unbounded resource a run may use.
MaxSockets == 2          \* websocket objects alive at the same time

\* ------------------------------------------------------ program constants
Null == 0                                  \* null and undefined
MAX_BACKOFF_MS == 2 * 60 * 1000
MIN_INACTIVE_MINUTES == 30
MAX_INACTIVE_MINUTES == 60 * 24
AdviceTimeout == 30000                     \* this._adviceTimeout
MonitorGrace == 5000
StartTime == 1000000                       \* Date.now() at construction
ClockStep == 40000                         \* one advance of the clock
_authenticationTimeout == MAX_INACTIVE_MINUTES   \* set by the constructor only

ActionNames == {"websocket", "handshake", "authenticate"}
Channels == {"quotes", "orders"}
MetaChannels == {"/meta/handshake", "/meta/connect", "/meta/subscribe", "/meta/unsubscribe"}
MultiIdChannels == {"orders", "deals", "positions"}
Callbacks == {"cb1", "cb2"}
SocketIds == 1 .. MaxSockets

\* ids as the caller passes them: one string, or an array of strings
IdInputs == {<<FALSE, <<"1">>>>, <<TRUE, <<"1", "2">>>>}

RECURSIVE Join(_)
\* Array.prototype.join(',')
Join(ids) ==
  IF Len(ids) = 0 THEN ""
  ELSE IF Len(ids) = 1 THEN ids[1]
  ELSE ids[1] \o "," \o Join(Tail(ids))

\* `/${channel}/${ids}`
SubscriptionString(channel, ids) == "/" \o channel \o "/" \o ids

Paths == {SubscriptionString(c, Join(i[2])) : c \in Channels, i \in IdInputs}

VARIABLES
  \* ---- the instance's fields (constructor)
  _credentials, _authenticated, _pushSubscriptionId, _securityToken, _customerId,
  _reauthentication, _backOffTimestamps, _socketHandshakeTimer,
  _socketSubscriptions, _socketMonitor, _socketLastMetaConnect,
  _socketConnected, _socketMessageCount, _socketClientId, _socket,
  listeners,
  \* ---- the runtime around the instance
  now,             \* Date.now()
  sockets,         \* every websocket object: readyState, handlers attached
  restartTimers,   \* pending setTimeout(() => _socketInit(true)) of _socketRestart
  leakedMonitors,  \* running intervals that _socketMonitor no longer refers to
  pending,         \* frames the server has received and not yet answered
  authRequests,    \* primary requests in flight, of calls without a one-time code
  totpRequests,    \* primary requests of calls with one, and second-factor requests
  handles,         \* unsubscribe closures the caller holds
  issued,          \* last session number the server issued
  clockSteps,
  crashed,         \* an exception escaped a callback
  clientGrant,     \* the subscriptionId the server granted _socketClientId under
  calls,           \* the promise of call(): requests in flight, made so far,
                   \* re-authentications so far, how it has settled
  \* ---- what has happened, kept in the runs that ask for it (limits.history)
  disconnected,    \* the caller called disconnect(), with no authenticate() of
                   \* theirs under way, and has not called authenticate() since
  resync,          \* what the caller did to the registry since a restart, and
                   \* the paths the connect handler has subscribed under a clientId
  limits           \* the limits of this run

vars == <<_credentials, _authenticated, _pushSubscriptionId, _securityToken,
          _customerId, _reauthentication, _backOffTimestamps,
          _socketHandshakeTimer, _socketSubscriptions, _socketMonitor,
          _socketLastMetaConnect, _socketConnected, _socketMessageCount,
          _socketClientId, _socket, listeners, now, sockets, restartTimers,
          leakedMonitors, pending, authRequests, totpRequests, handles, issued,
          clockSteps, crashed, clientGrant, calls, disconnected, resync, limits>>

\* The state as one record, at the start of a callback. The record also
\* collects what the callback does to the outside: the frames it sends, the
\* listeners it invokes, its calls of _scheduleReauth, whether it throws,
\* whether it resolves or rejects the promise of authenticate().
Cur ==
  [_credentials |-> _credentials, _authenticated |-> _authenticated,
   _pushSubscriptionId |-> _pushSubscriptionId, _securityToken |-> _securityToken,
   _customerId |-> _customerId, _reauthentication |-> _reauthentication,
   _backOffTimestamps |-> _backOffTimestamps,
   _socketHandshakeTimer |-> _socketHandshakeTimer,
   _socketSubscriptions |-> _socketSubscriptions, _socketMonitor |-> _socketMonitor,
   _socketLastMetaConnect |-> _socketLastMetaConnect,
   _socketConnected |-> _socketConnected, _socketMessageCount |-> _socketMessageCount,
   _socketClientId |-> _socketClientId, _socket |-> _socket, listeners |-> listeners,
   now |-> now, sockets |-> sockets, restartTimers |-> restartTimers,
   leakedMonitors |-> leakedMonitors, pending |-> pending,
   authRequests |-> authRequests, totpRequests |-> totpRequests,
   handles |-> handles, issued |-> issued,
   clockSteps |-> clockSteps, crashed |-> crashed, clientGrant |-> clientGrant,
   calls |-> calls, disconnected |-> disconnected, resync |-> resync,
   sent |-> <<>>, invoked |-> <<>>, reauthCalls |-> 0, thrown |-> FALSE,
   resolved |-> FALSE, rejected |-> FALSE, overBound |-> FALSE]

NoSocket == [readyState |-> "NONE", attached |-> FALSE]
NoTimer == [pending |-> FALSE, delay |-> 0]
NoCredentials == [present |-> FALSE, username |-> FALSE, password |-> FALSE,
                  totp |-> FALSE, totpSecret |-> FALSE]
NoEntry == [present |-> FALSE, value |-> Null]   \* no such key in the registry
NoHandles == [live |-> 0, orphaned |-> 0]
Origins == {"caller", "renewal", "call"}
NoCall == [waiting |-> 0, attempts |-> 0, reauths |-> 0, settled |-> "no"]
NoTotpRequests == [primary |-> 0, code |-> 0]
NoResync ==
  [active |-> FALSE, confirmed |-> {}, unsubscribed |-> {}, under |-> Null, sent |-> {},
   deferred |-> {}]

\* constructor(), in a run under the limits L
InitWith(L) ==
  /\ limits = L
  /\ _credentials = NoCredentials
  /\ _socket = Null
  /\ _authenticated = FALSE
  /\ _pushSubscriptionId = Null
  /\ _reauthentication = NoTimer
  /\ _customerId = Null
  /\ _securityToken = Null
  /\ _backOffTimestamps = [a \in ActionNames |-> Null]
  /\ _socketHandshakeTimer = FALSE
  /\ _socketSubscriptions = [p \in Paths |-> NoEntry]
  /\ _socketMonitor = FALSE
  /\ _socketLastMetaConnect = 0
  /\ _socketConnected = FALSE
  /\ _socketMessageCount = 1
  /\ _socketClientId = Null
  /\ listeners = [p \in Paths |-> <<>>]
  /\ now = StartTime
  /\ sockets = [s \in SocketIds |-> NoSocket]
  /\ restartTimers = 0
  /\ leakedMonitors = 0
  /\ pending = {}
  /\ authRequests = [o \in Origins |-> 0]
  /\ totpRequests = [o \in Origins |-> NoTotpRequests]
  /\ handles = [h \in Paths \X Callbacks |-> NoHandles]
  /\ issued = 0
  /\ clockSteps = 0
  /\ crashed = FALSE
  /\ clientGrant = Null
  /\ calls = NoCall
  /\ disconnected = FALSE
  /\ resync = NoResync

\* ------------------------------------------------------------ the methods

\* A _backoffCalc that makes a new record at every call within the window.
_backoffCalcRefreshing(S, actionName) ==
  LET ts == S._backOffTimestamps[actionName]
      elapsed == S.now - ts
      stamped == [S EXCEPT !._backOffTimestamps[actionName] = S.now]
  IN IF ts # Null /\ elapsed < MAX_BACKOFF_MS * 5
     THEN IF elapsed * 2 + 500 > MAX_BACKOFF_MS
          THEN [schedDelay |-> MAX_BACKOFF_MS, state |-> stamped]
          ELSE [schedDelay |-> elapsed * 2 + 500, state |-> stamped]
     ELSE [schedDelay |-> 0, state |-> stamped]

\* _backoffCalc(actionName): the delay, and the state with the record updated.
\* A missing record makes `now - undefined` NaN, and NaN < x is false.
_backoffCalc(S, actionName) ==
  LET ts == S._backOffTimestamps[actionName]
      elapsed == S.now - ts
  IN IF ts # Null /\ elapsed < MAX_BACKOFF_MS * 5
     THEN IF elapsed * 2 + 500 > MAX_BACKOFF_MS
          THEN [schedDelay |-> MAX_BACKOFF_MS,
                state |-> [S EXCEPT !._backOffTimestamps[actionName] = S.now]]
          ELSE [schedDelay |-> elapsed * 2 + 500, state |-> S]
     ELSE [schedDelay |-> 0,
           state |-> [S EXCEPT !._backOffTimestamps[actionName] = S.now]]

\* WebSocket.terminate(): the socket is destroyed; its 'close' event follows.
Terminate(readyState) == IF readyState = "CLOSED" THEN "CLOSED" ELSE "CLOSING"

\* An exception thrown inside an event or timer callback is caught by nobody.
Uncaught(S) == [S EXCEPT !.crashed = TRUE]

\* A restart begins a resync: the paths the caller listens to that are
\* confirmed under the clientId of the moment are to be subscribed again,
\* but for those the caller unsubscribes before the transport is connected.
Restarted(S) ==
  IF S.resync.active \/ ~limits.history THEN S.resync
  ELSE [active |-> TRUE,
        confirmed |-> {p \in Paths : /\ S._socketClientId # Null
                                      /\ S._socketSubscriptions[p].present
                                      /\ S._socketSubscriptions[p].value = S._socketClientId
                                      /\ S.listeners[p] # <<>>},
        unsubscribed |-> {}, under |-> S.resync.under, sent |-> S.resync.sent,
        deferred |-> S.resync.deferred]

\* _socketRestart()
_socketRestart(S) ==
  IF S._socket = Null THEN Uncaught(S)     \* null.removeAllListeners()
  ELSE LET s == S._socket
           S1 == [S EXCEPT !.sockets[s].attached = FALSE,
                           !.sockets[s].readyState = Terminate(@),
                           !._socketConnected = FALSE,
                           !._backOffTimestamps["handshake"] = Null,
                           !._socketMonitor = FALSE,
                           !._socketHandshakeTimer = FALSE]
           b == _backoffCalc(S1, "websocket")
       IN [b.state EXCEPT !.restartTimers = @ + 1, !.resync = Restarted(S)]

\* The old socket object is unreachable once this._socket is reassigned, unless
\* its handlers are still attached and it can still emit events.
Unreachable(S, s) ==
  \/ S.sockets[s].readyState = "NONE"
  \/ ~S.sockets[s].attached
  \/ S.sockets[s].readyState = "CLOSED"

\* _socketInit(restart)
_socketInit(S, restart) ==
  IF S._socket # Null /\ ~restart THEN S
  ELSE LET free == {s \in SocketIds :
                      \/ S.sockets[s].readyState = "NONE"
                      \/ s = S._socket /\ Unreachable(S, s)}
       IN IF free = {} THEN [S EXCEPT !.overBound = TRUE]
          ELSE LET s == CHOOSE x \in free : \A y \in free : x <= y
               IN [S EXCEPT
                     !._socket = s,
                     !.sockets[s] = [readyState |-> "CONNECTING", attached |-> TRUE],
                     !.leakedMonitors = IF S._socketMonitor THEN @ + 1 ELSE @,
                     !._socketMonitor = TRUE]

\* The Bayeux messages the client builds.
Message(channel, clientId, id, subscription, ext) ==
  [channel |-> channel, clientId |-> clientId, id |-> id,
   subscription |-> subscription, ext |-> ext]

\* The sequence counter is followed exactly up to limits.messageCount, and
\* as "that or more" from there on.
Counted(n) == IF n > limits.messageCount THEN limits.messageCount ELSE n

\* The server has received a frame. It answers the latest frame of a kind on a
\* socket; one that a newer frame of the same kind overtook is never answered.
Received(pend, sock, data) ==
  {r \in pend : ~(r.sock = sock /\ r.channel = data.channel
                                 /\ r.subscription = data.subscription)}
  \cup {[sock |-> sock, channel |-> data.channel,
          clientId |-> IF data.channel = "/meta/subscribe" THEN data.clientId ELSE Null,
          ext |-> IF data.channel = "/meta/handshake" THEN data.ext ELSE Null,
          subscription |-> data.subscription]}

\* _socketSend(data): JSON.stringify([data]) goes out.
_socketSend(S, data) ==
  IF S._socket # Null /\ S.sockets[S._socket].readyState = "OPEN"
  THEN [S EXCEPT !.sent = Append(@, <<data>>),
                 !._socketMessageCount = Counted(@ + 1),
                 !.pending = Received(@, S._socket, data)]
  ELSE S

\* _authenticateSocket(forceHandshake)
_authenticateSocket(S, forceHandshake) ==
  IF S._socketClientId = Null \/ forceHandshake
  THEN LET S1 == [S EXCEPT !._socketClientId = Null, !._socketConnected = FALSE]
       IN IF S1._pushSubscriptionId # Null
          THEN [_backoffCalc(S1, "handshake").state EXCEPT !._socketHandshakeTimer = TRUE]
          ELSE S1
  ELSE _socketSend(S, Message("/meta/connect", S._socketClientId,
                              S._socketMessageCount, "", Null))

\* The handshake timer's callback. The id is this._socketMessageCounter, a
\* field nobody sets.
HandshakeMessage(S) == Message("/meta/handshake", Null, Null, "", S._pushSubscriptionId)

\* _socketSubscribe(subscriptionString)
_socketSubscribe(S, subscriptionString) ==
  LET S1 == [S EXCEPT !._socketSubscriptions[subscriptionString] =
                          [present |-> TRUE, value |-> Null]]
  IN IF S1._socketConnected
     THEN _socketSend(S1, Message("/meta/subscribe", S1._socketClientId,
                                  S1._socketMessageCount, subscriptionString, Null))
     ELSE S1

\* _socketUnsubscribe(subscriptionString)
_socketUnsubscribe(S, subscriptionString) ==
  IF S._socketConnected
  THEN _socketSend(S, Message("/meta/unsubscribe", S._socketClientId,
                              S._socketMessageCount, subscriptionString, Null))
  ELSE S

\* _scheduleReauth(delay): `delay || this._backoffCalc('authenticate')`
_scheduleReauth(S, delay) ==
  LET S1 == [S EXCEPT !.reauthCalls = @ + 1]
  IN IF delay # Null
     THEN [S1 EXCEPT !._reauthentication = [pending |-> TRUE, delay |-> delay]]
     ELSE LET b == _backoffCalc(S1, "authenticate")
          IN [b.state EXCEPT !._reauthentication =
                                 [pending |-> TRUE, delay |-> b.schedDelay]]

\* What the server's messages carry.
NoAdvice == [present |-> FALSE, reconnect |-> "", interval |-> 0]
Advices == {NoAdvice} \cup
           [present : {TRUE}, reconnect : {"retry", "handshake", "none"}, interval : {0}] \cup
           [present : {TRUE}, reconnect : {"retry"}, interval : {-1}]

\* EventEmitter.emit(channel, data): every listener of the channel is called.
Emit(S, channel) ==
  IF channel \in Paths
  THEN [S EXCEPT !.invoked = @ \o [i \in 1 .. Len(S.listeners[channel]) |->
                                     <<channel, S.listeners[channel][i]>>]]
  ELSE S

RECURSIVE Resubscribe(_, _)
\* Object.keys(this._socketSubscriptions).forEach(...) of the connect handler
Resubscribe(S, keys) ==
  IF keys = {} THEN S
  ELSE LET substr == CHOOSE k \in keys : TRUE
           S1 == IF S._socketSubscriptions[substr].value # S._socketClientId
                 THEN _socketSubscribe(S, substr)
                 ELSE S
       IN Resubscribe(S1, keys \ {substr})

\* case '/meta/disconnect'
OnDisconnect(S) ==
  IF S._socketClientId # Null THEN _authenticateSocket(S, TRUE) ELSE S

\* case '/meta/handshake', successful
HandshakeAccepted(S, message) ==
  LET S1 == [S EXCEPT !._socketClientId = message.clientId,
                      !.resync.under = Null, !.resync.sent = {}]
  IN _socketSend(S1, Message("/meta/connect", S1._socketClientId,
                             S1._socketMessageCount, "", Null))

\* A refusal that leaves the session's push subscriptionId in place.
HandshakeRefusedKeepingSession(S) ==
  _scheduleReauth([S EXCEPT !._socketClientId = Null,
                            !._socketConnected = FALSE], Null)

\* case '/meta/handshake', not successful and no advice to handshake again
HandshakeRefused(S) ==
  _scheduleReauth([S EXCEPT !._socketClientId = Null,
                            !._socketConnected = FALSE,
                            !._pushSubscriptionId = Null], Null)

\* A handler that takes every failed handshake for a refusal.
OnHandshakeIgnoringAdvice(S, message) ==
  IF message.successful THEN HandshakeAccepted(S, message)
  ELSE HandshakeRefused(S)

\* case '/meta/handshake'
OnHandshake(S, message) ==
  IF message.successful THEN HandshakeAccepted(S, message)
  ELSE IF message.advice.present /\ message.advice.reconnect = "handshake"
  THEN _authenticateSocket(S, TRUE)
  ELSE HandshakeRefused(S)

\* The connect handler has made its subscribes: S before them, T after. The
\* resync is over, and the paths it sent a /meta/subscribe for are added to
\* those sent under the clientId.
Resynced(S, T) ==
  IF ~limits.history THEN [T EXCEPT !.resync = NoResync]
  ELSE [T EXCEPT !.resync =
          [NoResync EXCEPT
             !.under = S._socketClientId,
             !.sent = (IF S.resync.under = S._socketClientId THEN S.resync.sent ELSE {})
                      \cup {p \in Paths : \E i \in 1 .. Len(T.sent) :
                                             /\ T.sent[i][1].channel = "/meta/subscribe"
                                             /\ T.sent[i][1].subscription = p}]]

\* case '/meta/connect'
OnConnect(S, message) ==
  IF /\ message.successful
     /\ \/ ~message.advice.present
        \/ /\ message.advice.reconnect # "none"
           /\ ~(message.advice.interval < 0)
  THEN LET S1 == [S EXCEPT !._socketLastMetaConnect = S.now]
           S2 == _socketSend(S1, Message("/meta/connect", S1._socketClientId,
                                         S1._socketMessageCount, "", Null))
       IN IF ~S2._socketConnected
          THEN Resynced(S2, Resubscribe([S2 EXCEPT !._socketConnected = TRUE],
                                        {p \in Paths : S2._socketSubscriptions[p].present}))
          ELSE S2
  ELSE IF S._socketClientId # Null THEN _authenticateSocket(S, TRUE)
  ELSE S

\* case '/meta/subscribe'
OnSubscribe(S, message) ==
  IF message.successful
  THEN [S EXCEPT !._socketSubscriptions[message.subscription] =
                     [present |-> TRUE, value |-> S._socketClientId]]
  ELSE S

\* case '/meta/unsubscribe'
OnUnsubscribe(S, message) ==
  IF message.successful
  THEN [S EXCEPT !._socketSubscriptions[message.subscription] = NoEntry]
  ELSE S

\* One iteration of the loop of _socketHandleMessage: the switch on message.channel.
HandleMessage(S, message) ==
  CASE message.channel = "/meta/disconnect" -> OnDisconnect(S)
    [] message.channel = "/meta/handshake" -> OnHandshake(S, message)
    [] message.channel = "/meta/connect" -> OnConnect(S, message)
    [] message.channel = "/meta/subscribe" -> OnSubscribe(S, message)
    [] message.channel = "/meta/unsubscribe" -> OnUnsubscribe(S, message)
    [] OTHER -> Emit(S, message.channel)

RECURSIVE _socketHandleMessage(_, _)
\* _socketHandleMessage(data): the batch, message by message
_socketHandleMessage(S, response) ==
  IF response = <<>> THEN S
  ELSE _socketHandleMessage(HandleMessage(S, Head(response)), Tail(response))

\* The interval callback of _socketInit
MonitorCallback(S) ==
  IF S._pushSubscriptionId = Null THEN S
  ELSE IF S._socket = Null THEN Uncaught(S)          \* null.readyState
  ELSE IF S.sockets[S._socket].readyState # "OPEN" THEN _socketRestart(S)
  ELSE IF /\ S._socketConnected
          /\ S._socketLastMetaConnect + AdviceTimeout + MonitorGrace < S.now
  THEN _socketRestart(S)
  ELSE S

\* authenticate(credentials): the checks made before any request is issued
CredentialsAccepted(credentials) ==
  /\ credentials.present
  /\ credentials.username
  /\ credentials.password
  /\ _authenticationTimeout >= MIN_INACTIVE_MINUTES
  /\ _authenticationTimeout <= MAX_INACTIVE_MINUTES

\* A .then that forgets the renewal.
AuthSucceededUnscheduled(S, session) ==
  LET S1 == [S EXCEPT !._authenticated = TRUE,
                      !._securityToken = session,
                      !._pushSubscriptionId = session,
                      !._customerId = 1,
                      !.issued = session]
      S2 == IF S1._socket # Null THEN _socketRestart(S1) ELSE S1
  IN [S2 EXCEPT !.resolved = TRUE]

\* authenticate(): the .then of the accepted request
AuthSucceeded(S, session) ==
  LET S1 == [S EXCEPT !._authenticated = TRUE,
                      !._securityToken = session,
                      !._pushSubscriptionId = session,
                      !._customerId = 1,
                      !.issued = session]
      S2 == _scheduleReauth(S1, (_authenticationTimeout - 1) * 60 * 1000)
      S3 == IF S2._socket # Null THEN _socketRestart(S2) ELSE S2
  IN [S3 EXCEPT !.resolved = TRUE]

\* A .catch that schedules a new attempt itself.
AuthFailedRetrying(S) ==
  _scheduleReauth([S EXCEPT !._authenticated = FALSE, !._pushSubscriptionId = Null,
                            !.rejected = TRUE], Null)

\* authenticate(): the .catch
AuthFailed(S) ==
  [S EXCEPT !._authenticated = FALSE, !._pushSubscriptionId = Null,
            !.rejected = TRUE]

\* The .catch of the renewal timer's callback
RenewalFailed(S) ==
  LET b == _backoffCalc(S, "authenticate")
  IN _scheduleReauth(b.state, b.schedDelay)

\* The promise of authenticate() rejects: its own .catch has run, and the
\* .catch of the renewal callback when the timer made the call.
Caught(S, origin) ==
  IF origin = "renewal" THEN RenewalFailed(AuthFailed(S)) ELSE AuthFailed(S)

\* `credentials.totpSecret ? totp(credentials.totpSecret) : credentials.totp`
TotpCode(credentials) ==
  IF credentials.totpSecret THEN "generated"
  ELSE IF credentials.totp THEN "supplied"
  ELSE ""

\* authenticate(credentials), up to the primary request: a call that fails
\* the checks returns a rejected promise and does nothing else.
AuthenticateBody(S, origin, credentials) ==
  IF ~CredentialsAccepted(credentials) THEN [S EXCEPT !.rejected = TRUE]
  ELSE IF TotpCode(credentials) = ""
  THEN [S EXCEPT !._credentials = credentials, !.authRequests[origin] = @ + 1]
  ELSE [S EXCEPT !._credentials = credentials,
                 !.totpRequests[origin].primary = @ + 1]

\* A second-factor step that sends whatever code it has, or none.
SecondFactorUnchecked(S, origin, coded, method) ==
  IF method # "TOTP" THEN Caught(S, origin)
  ELSE [S EXCEPT !.totpRequests[origin].code = @ + 1]

\* authenticate(): the first .then when the answer to the primary request
\* carries twoFactorLogin; coded tells whether the call's credentials give a
\* one-time code.
SecondFactor(S, origin, coded, method) ==
  IF method # "TOTP" THEN Caught(S, origin)
  ELSE IF ~coded THEN Caught(S, origin)
  ELSE [S EXCEPT !.totpRequests[origin].code = @ + 1]

\* An off() that removes every instance of the listener.
OffEveryInstance(list, listener) ==
  SelectSeq(list, LAMBDA l : l # listener)

\* EventEmitter.off(name, listener): the most recently added instance goes.
Off(list, listener) ==
  LET at == {i \in 1 .. Len(list) : list[i] = listener}
  IN IF at = {} THEN list
     ELSE LET last == CHOOSE i \in at : \A j \in at : j <= i
          IN SubSeq(list, 1, last - 1) \o SubSeq(list, last + 1, Len(list))

\* call(method, path, data), up to the request: a promise that is rejected at
\* once when the session is not authenticated.
CallBody(S) ==
  IF ~S._authenticated THEN [S EXCEPT !.calls.settled = "rejected"]
  ELSE [S EXCEPT !.calls.waiting = @ + 1, !.calls.attempts = @ + 1]

\* What call() has chained on the promise of its authenticate():
\* .then(() => this.call(method, path, data)) and .catch(reject).
Chained(S, origin) ==
  IF origin # "call" THEN S
  ELSE IF S.resolved THEN CallBody(S)
  ELSE IF S.rejected THEN [S EXCEPT !.calls.settled = "rejected"]
  ELSE S

\* call(): the answer carries the header aza-invalid-session, in the .then or
\* in the .catch of the request.
InvalidSession(S) ==
  LET S1 == [S EXCEPT !._authenticated = FALSE,
                      !._securityToken = Null,
                      !.calls.reauths = @ + 1]
  IN Chained(AuthenticateBody(S1, "call", S1._credentials), "call")

\* disconnect()
DisconnectBody(S) ==
  LET S1 == [S EXCEPT !._reauthentication = NoTimer,
                      !._authenticated = FALSE,
                      !.listeners = [p \in Paths |-> <<>>],
                      !._socketMonitor = FALSE]
      S2 == IF S1._socket # Null
            THEN [S1 EXCEPT !.sockets[S1._socket].attached = FALSE,
                            !.sockets[S1._socket].readyState = Terminate(@),
                            !._socket = Null]
            ELSE S1
  IN [S2 EXCEPT !._socketClientId = Null,
                !._socketConnected = FALSE,
                !._pushSubscriptionId = Null,
                !._socketSubscriptions = [p \in Paths |-> NoEntry],
                !.resync = NoResync]

\* ------------------------------------------------------------ the runtime

\* Objects nothing refers to any more are dropped, and with them what the
\* server still had to say to a socket that no longer listens.
Collect(S) ==
  LET socks == [s \in SocketIds |->
                  IF s # S._socket /\ Unreachable(S, s) THEN NoSocket ELSE S.sockets[s]]
  IN [S EXCEPT !.sockets = socks,
               !.clientGrant = IF S._socketClientId = Null THEN Null ELSE @,
               !.pending = {r \in S.pending : /\ socks[r.sock].attached
                                              /\ socks[r.sock].readyState = "OPEN"
                                              /\ r.channel \in limits.staleAnswers \/ r.sock = S._socket}]

RECURSIVE Sum(_, _)
Sum(f, keys) ==
  IF keys = {} THEN 0
  ELSE LET k == CHOOSE x \in keys : TRUE IN f[k] + Sum(f, keys \ {k})

HandleCount(S) ==
  Sum([h \in Paths \X Callbacks |-> S.handles[h].live + S.handles[h].orphaned],
      Paths \X Callbacks)

\* The authentication requests in flight.
InFlight(S) ==
  Sum([o \in Origins |-> S.authRequests[o] + S.totpRequests[o].primary
                            + S.totpRequests[o].code], Origins)

WithinBounds(S) ==
  /\ ~S.overBound
  /\ S.restartTimers <= limits.restartTimers
  /\ S.leakedMonitors <= limits.leakedMonitors
  /\ InFlight(S) <= limits.authRequests
  /\ HandleCount(S) <= limits.handles
  /\ S.clockSteps <= limits.clockSteps
  /\ S.calls.attempts <= limits.calls

\* The callback has run to completion: S is the next state.
Commit(S0) ==
  \E S \in {Collect(S0)} :
     /\ WithinBounds(S)
     /\ _credentials' = S._credentials
     /\ _authenticated' = S._authenticated
     /\ _pushSubscriptionId' = S._pushSubscriptionId
     /\ _securityToken' = S._securityToken
     /\ _customerId' = S._customerId
     /\ _reauthentication' = S._reauthentication
     /\ _backOffTimestamps' = S._backOffTimestamps
     /\ _socketHandshakeTimer' = S._socketHandshakeTimer
     /\ _socketSubscriptions' = S._socketSubscriptions
     /\ _socketMonitor' = S._socketMonitor
     /\ _socketLastMetaConnect' = S._socketLastMetaConnect
     /\ _socketConnected' = S._socketConnected
     /\ _socketMessageCount' = S._socketMessageCount
     /\ _socketClientId' = S._socketClientId
     /\ _socket' = S._socket
     /\ listeners' = S.listeners
     /\ now' = S.now
     /\ sockets' = S.sockets
     /\ restartTimers' = S.restartTimers
     /\ leakedMonitors' = S.leakedMonitors
     /\ pending' = S.pending
     /\ authRequests' = S.authRequests
     /\ totpRequests' = S.totpRequests
     /\ handles' = S.handles
     /\ issued' = S.issued
     /\ clockSteps' = S.clockSteps
     /\ crashed' = S.crashed
     /\ clientGrant' = S.clientGrant
     /\ calls' = S.calls
     /\ disconnected' = S.disconnected
     /\ resync' = S.resync
     /\ limits' = limits

\* The server issues a session it has not issued just before.
NextSession(S) == (S.issued % limits.sessions) + 1

\* The server assigns a clientId nothing on the client still mentions.
FreeClientIds(S) ==
  {c \in 1 .. limits.clientIds :
     /\ c # S._socketClientId
     /\ \A p \in Paths : S._socketSubscriptions[p].value # c
     /\ \A r \in S.pending : r.clientId # c}

\* The paths the caller subscribes to in this run.
CallerPaths ==
  {SubscriptionString(c, Join(i[2])) : c \in limits.channels, i \in limits.ids}

\* What the server may answer to a frame r it has received.
Responses(S, r) ==
  CASE r.channel = "/meta/handshake" ->
         {[channel |-> r.channel, successful |-> TRUE, advice |-> NoAdvice,
           clientId |-> c, subscription |-> ""] :
            c \in {x \in FreeClientIds(S) : \A y \in FreeClientIds(S) : x <= y}}
         \cup
         {[channel |-> r.channel, successful |-> FALSE, advice |-> a,
           clientId |-> Null, subscription |-> ""] : a \in Advices}
    [] r.channel = "/meta/connect" ->
         {[channel |-> r.channel, successful |-> ok, advice |-> a,
           clientId |-> r.clientId, subscription |-> ""] :
            ok \in BOOLEAN, a \in Advices}
    [] OTHER ->
         {[channel |-> r.channel, successful |-> ok, advice |-> NoAdvice,
           clientId |-> r.clientId, subscription |-> r.subscription] :
            ok \in BOOLEAN}

\* What the server may send unasked: a disconnect, or data on a channel.
Unsolicited ==
  {[channel |-> c, successful |-> FALSE, advice |-> NoAdvice, clientId |-> Null,
    subscription |-> ""] : c \in {"/meta/disconnect"} \cup CallerPaths}

\* ------------------------------------------------------------ the actions

\* The caller calls authenticate(credentials).
PlainCredentials ==
  [present |-> TRUE, username |-> TRUE, password |-> TRUE,
   totp |-> FALSE, totpSecret |-> FALSE]

CredentialInputs ==
  {NoCredentials,
   [PlainCredentials EXCEPT !.username = FALSE],
   [PlainCredentials EXCEPT !.password = FALSE],
   PlainCredentials}

\* Credentials for an account with a second factor.
TotpCredentialInputs ==
  {[PlainCredentials EXCEPT !.totp = TRUE],
   [PlainCredentials EXCEPT !.totpSecret = TRUE]}

Authenticate ==
  \E credentials \in limits.credentials :
    /\ ~crashed
    /\ Commit([AuthenticateBody(Cur, "caller", credentials) EXCEPT
                 !.disconnected = FALSE])

\* The requests in flight, by what they are: the primary request of a call
\* without a one-time code, that of a call with one, the second-factor request.
Requests == {"plain", "coded", "code"}

Waiting(S, origin, request) ==
  CASE request = "plain" -> S.authRequests[origin]
    [] request = "coded" -> S.totpRequests[origin].primary
    [] OTHER -> S.totpRequests[origin].code

\* The request is answered, or has failed.
Answer(S, origin, request) ==
  CASE request = "plain" -> [S EXCEPT !.authRequests[origin] = @ - 1]
    [] request = "coded" -> [S EXCEPT !.totpRequests[origin].primary = @ - 1]
    [] OTHER -> [S EXCEPT !.totpRequests[origin].code = @ - 1]

\* The server accepts an authentication request in flight: the answer to a
\* primary request that asks for no second factor, or to the one-time code.
AuthenticateResolves ==
  \E origin \in Origins, request \in Requests :
    /\ ~crashed
    /\ Waiting(Cur, origin, request) > 0
    /\ Commit(Chained(AuthSucceeded(Answer(Cur, origin, request), NextSession(Cur)),
                      origin))

\* The server rejects it, or the request fails.
AuthenticateRejects ==
  \E origin \in Origins, request \in Requests :
    /\ ~crashed
    /\ Waiting(Cur, origin, request) > 0
    /\ Commit(Chained(Caught(Answer(Cur, origin, request), origin), origin))

\* The second-factor methods a server may ask for.
Methods == {"TOTP", "SMS"}

\* The server answers a primary request by asking for a second factor.
SecondFactorAsked ==
  \E origin \in Origins, request \in {"plain", "coded"}, method \in Methods :
    /\ ~crashed
    /\ Waiting(Cur, origin, request) > 0
    /\ Commit(Chained(SecondFactor(Answer(Cur, origin, request), origin,
                                   request = "coded", method), origin))

\* The renewal timer fires: this.authenticate(this._credentials).catch(...)
RenewalTimerFires ==
  /\ ~crashed
  /\ _reauthentication.pending
  /\ LET S1 == AuthenticateBody([Cur EXCEPT !._reauthentication = NoTimer],
                                "renewal", _credentials)
     IN Commit(IF S1.rejected THEN RenewalFailed(S1) ELSE S1)

\* A subscribe() that looks at the session only after it has registered the
\* listener.
SubscribeCheckingLate(S, channel, ids, callback) ==
  IF ids[1] /\ channel \notin MultiIdChannels THEN [S EXCEPT !.thrown = TRUE]
  ELSE LET subscriptionString == SubscriptionString(channel, Join(ids[2]))
           S1 == [S EXCEPT !.listeners[subscriptionString] = Append(@, callback)]
       IN IF S._pushSubscriptionId = Null THEN [S1 EXCEPT !.thrown = TRUE]
          ELSE LET S2 == IF S1._socket = Null THEN _socketInit(S1, FALSE) ELSE S1
                   S3 == _socketSubscribe(S2, subscriptionString)
               IN [S3 EXCEPT !.handles[<<subscriptionString, callback>>].live = @ + 1,
                             !.resync.unsubscribed = @ \ {subscriptionString},
                     !.resync.sent = @ \ {subscriptionString},
                     !.resync.deferred = IF limits.history /\ ~S._socketConnected
                                         THEN @ \cup {subscriptionString} ELSE @]

\* A subscribe() that joins an array of ids on every channel.
SubscribeJoiningAlways(S, channel, ids, callback) ==
  IF S._pushSubscriptionId = Null THEN [S EXCEPT !.thrown = TRUE]
  ELSE LET subscriptionString == SubscriptionString(channel, Join(ids[2]))
           S1 == IF S._socket = Null THEN _socketInit(S, FALSE) ELSE S
           S2 == [S1 EXCEPT !.listeners[subscriptionString] = Append(@, callback)]
           S3 == _socketSubscribe(S2, subscriptionString)
       IN [S3 EXCEPT !.handles[<<subscriptionString, callback>>].live = @ + 1,
                     !.resync.unsubscribed = @ \ {subscriptionString},
                     !.resync.sent = @ \ {subscriptionString},
                     !.resync.deferred = IF limits.history /\ ~S._socketConnected
                                         THEN @ \cup {subscriptionString} ELSE @]

\* subscribe(channel, ids, callback)
SubscribeBody(S, channel, ids, callback) ==
  IF S._pushSubscriptionId = Null THEN [S EXCEPT !.thrown = TRUE]
  ELSE IF ids[1] /\ channel \notin MultiIdChannels THEN [S EXCEPT !.thrown = TRUE]
  ELSE LET subscriptionString == SubscriptionString(channel, Join(ids[2]))
           S1 == IF S._socket = Null THEN _socketInit(S, FALSE) ELSE S
           S2 == [S1 EXCEPT !.listeners[subscriptionString] = Append(@, callback)]
           S3 == _socketSubscribe(S2, subscriptionString)
       IN [S3 EXCEPT !.handles[<<subscriptionString, callback>>].live = @ + 1,
                     !.resync.unsubscribed = @ \ {subscriptionString},
                     !.resync.sent = @ \ {subscriptionString},
                     !.resync.deferred = IF limits.history /\ ~S._socketConnected
                                         THEN @ \cup {subscriptionString} ELSE @]

Subscribe ==
  \E channel \in limits.channels, ids \in limits.ids, callback \in limits.callbacks :
    /\ ~crashed
    /\ Commit(SubscribeBody(Cur, channel, ids, callback))

\* The function subscribe() returned, called by the caller.
UnsubscribeBody(S, subscriptionString, callback) ==
  IF S._pushSubscriptionId = Null THEN [S EXCEPT !.thrown = TRUE]
  ELSE IF S._socket = Null THEN [S EXCEPT !.thrown = TRUE]
  ELSE _socketUnsubscribe(
         [S EXCEPT !.listeners[subscriptionString] = Off(@, callback),
                   !.resync.deferred = @ \ {subscriptionString},
                   !.resync.unsubscribed =
                      IF /\ subscriptionString \in S.resync.confirmed
                         /\ Off(S.listeners[subscriptionString], callback) = <<>>
                      THEN @ \cup {subscriptionString} ELSE @],
         subscriptionString)

Unsubscribe ==
  \E h \in Paths \X Callbacks, kind \in {"live", "orphaned"} :
    /\ ~crashed
    /\ handles[h][kind] > 0
    /\ LET S1 == UnsubscribeBody(Cur, h[1], h[2])
       IN Commit(IF S1.thrown THEN S1 ELSE [S1 EXCEPT !.handles[h][kind] = @ - 1])

\* disconnect(); the closures handed out so far outlive it, if the caller
\* keeps them.
Disconnect ==
  /\ ~crashed
  /\ Commit([DisconnectBody(Cur) EXCEPT
            !.disconnected = limits.history /\ \A request \in Requests :
                                                 Waiting(Cur, "caller", request) = 0,
            !.handles = [h \in Paths \X Callbacks |->
                           [live |-> 0,
                            orphaned |-> IF limits.orphans
                                         THEN handles[h].live + handles[h].orphaned
                                         ELSE 0]]])

\* 'open' on a socket
SocketOpen ==
  \E s \in SocketIds :
    /\ ~crashed
    /\ sockets[s].readyState = "CONNECTING"
    /\ LET S1 == [Cur EXCEPT !.sockets[s].readyState = "OPEN"]
       IN Commit(IF sockets[s].attached THEN _authenticateSocket(S1, FALSE) ELSE S1)

\* 'message' on a socket: one message in the batch
SocketMessage ==
  \E s \in SocketIds :
    /\ ~crashed
    /\ sockets[s].readyState = "OPEN"
    /\ sockets[s].attached
    /\ \/ \E r \in {x \in pending : x.sock = s} : \E m \in Responses(Cur, r) :
            Commit(_socketHandleMessage(
                     [Cur EXCEPT !.pending = @ \ {r},
                                 !.clientGrant = IF m.channel = "/meta/handshake" /\ m.successful
                                                 THEN r.ext ELSE @],
                     <<m>>))
       \/ \E m \in Unsolicited :
            Commit(_socketHandleMessage(Cur, <<m>>))

\* 'close' on a socket: the peer or the network closed it, or it was terminated
SocketClose ==
  \E s \in SocketIds :
    /\ ~crashed
    /\ sockets[s].readyState \in {"OPEN", "CLOSING"}
    /\ LET S1 == [Cur EXCEPT !.sockets[s].readyState = "CLOSED"]
       IN Commit(IF sockets[s].attached THEN _socketRestart(S1) ELSE S1)

\* 'error' on a socket; its 'close' follows
SocketError ==
  \E s \in SocketIds :
    /\ ~crashed
    /\ sockets[s].readyState \in {"CONNECTING", "OPEN"}
    /\ LET S1 == [Cur EXCEPT !.sockets[s].readyState = "CLOSING"]
       IN Commit(IF sockets[s].attached THEN _socketRestart(S1) ELSE S1)

\* The handshake timer of _authenticateSocket fires.
HandshakeTimerFires ==
  /\ ~crashed
  /\ _socketHandshakeTimer
  /\ LET S1 == [Cur EXCEPT !._socketHandshakeTimer = FALSE]
     IN Commit(_socketSend(S1, HandshakeMessage(S1)))

\* The timeout of _socketRestart fires.
RestartTimerFires ==
  /\ ~crashed
  /\ restartTimers > 0
  /\ Commit(_socketInit([Cur EXCEPT !.restartTimers = @ - 1], TRUE))

\* A monitor interval ticks.
MonitorTicks ==
  /\ ~crashed
  /\ (_socketMonitor \/ leakedMonitors > 0)
  /\ Commit(MonitorCallback(Cur))

\* Time passes.
TimePasses ==
  /\ ~crashed
  /\ clockSteps < limits.clockSteps
  /\ Commit([Cur EXCEPT !.now = @ + ClockStep, !.clockSteps = @ + 1])

\* Every callback but the passing of time.
Untimed ==
  \/ Authenticate
  \/ AuthenticateResolves
  \/ AuthenticateRejects
  \/ SecondFactorAsked
  \/ RenewalTimerFires
  \/ Subscribe
  \/ Unsubscribe
  \/ Disconnect
  \/ SocketOpen
  \/ SocketMessage
  \/ SocketClose
  \/ SocketError
  \/ HandshakeTimerFires
  \/ RestartTimerFires
  \/ MonitorTicks

Next == Untimed \/ TimePasses

\* ------------------------------------------------------ specifications

MaxRestartTimers == 1    \* pending restart timeouts
MaxLeakedMonitors == 0   \* monitor intervals running unreferenced
MaxAuthRequests == 1     \* authentication requests in flight
MaxHandles == 1          \* unsubscribe closures the caller holds
MaxClockSteps == 1       \* times the clock advances
MaxSessions == 1         \* distinct sessions the server issues in turn
MaxClientIds == 2        \* clientIds the client still mentions at a time
MaxMessageCount == 2     \* the sequence counter is exact below this value

BaseLimits ==
  [restartTimers |-> MaxRestartTimers, leakedMonitors |-> MaxLeakedMonitors,
   authRequests |-> MaxAuthRequests, handles |-> MaxHandles,
   clockSteps |-> MaxClockSteps, sessions |-> MaxSessions, orphans |-> FALSE,
   staleAnswers |-> MetaChannels, history |-> FALSE, calls |-> 0,
   clientIds |-> MaxClientIds, messageCount |-> MaxMessageCount,
   channels |-> {"quotes"}, ids |-> {<<FALSE, <<"1">>>>}, callbacks |-> {"cb1"},
   credentials |-> CredentialInputs]

\* The client, from its construction, with time passing.
Init == InitWith(BaseLimits)
Spec == Init /\ [][Next]_vars

\* The same within one instant, with the caller's history kept.
HistoryLimits == [BaseLimits EXCEPT !.history = TRUE]
InitHistory == InitWith(HistoryLimits)
SpecHistory == InitHistory /\ [][Untimed]_vars

\* Two listeners, and closures that outlive a disconnect().
MaxDispatchHandles == 2
DispatchLimits ==
  [BaseLimits EXCEPT !.callbacks = Callbacks, !.handles = MaxDispatchHandles,
                     !.orphans = FALSE]
InitDispatch == InitWith(DispatchLimits)
SpecDispatch == InitDispatch /\ [][Untimed]_vars

\* A server that issues a new session at each authentication.
MaxRenewedSessions == 2
SessionLimits == [BaseLimits EXCEPT !.sessions = MaxRenewedSessions]
InitSession == InitWith(SessionLimits)
SpecSession == InitSession /\ [][Untimed]_vars

\* A caller who passes arrays of ids, on either kind of channel.
MultiLimits ==
  [BaseLimits EXCEPT !.channels = Channels, !.ids = {i \in IdInputs : i[1]}]
InitMulti == InitWith(MultiLimits)
SpecMulti == InitMulti /\ [][Untimed]_vars

\* Restarts that overlap: two restart timeouts pending, a monitor interval
\* left running. On a socket the client has replaced the server answers
\* the /meta/connect only.
MaxOverlappingRestarts == 2
MaxOverlappingMonitors == 1
OverlapLimits ==
  [BaseLimits EXCEPT !.restartTimers = MaxOverlappingRestarts,
                     !.leakedMonitors = MaxOverlappingMonitors,
                     !.staleAnswers = {"/meta/connect"}]
InitOverlap == InitWith(OverlapLimits)
SpecOverlap == InitOverlap /\ [][Untimed]_vars

\* Callers with and without a second factor.
AuthLimits ==
  [BaseLimits EXCEPT !.credentials = CredentialInputs \cup TotpCredentialInputs]
InitAuth == InitWith(AuthLimits)
SpecAuth == InitAuth /\ [][Untimed]_vars

\* _backoffCalc alone: the calls made at the instants that the waits reach,
\* among them 59750 ms (where 2e + 500 is the cap) and 600000 ms (the end of
\* the window) after a record was made.
MaxBackoffWaits == 4
BackoffWaits == {1, 59749, 540250}
BackoffLimits == [BaseLimits EXCEPT !.clockSteps = MaxBackoffWaits]

InitBackoff == InitWith(BackoffLimits)

BackoffCall ==
  \E actionName \in ActionNames :
    /\ ~crashed
    /\ Commit(_backoffCalc(Cur, actionName).state)

BackoffWait ==
  \E wait \in BackoffWaits :
    /\ clockSteps < limits.clockSteps
    /\ Commit([Cur EXCEPT !.now = @ + wait, !.clockSteps = @ + 1])

NextBackoff == BackoffCall \/ BackoffWait
SpecBackoff == InitBackoff /\ [][NextBackoff]_vars

\* The caller of the REST interface: one call() at a time, the server
\* answering each request with a body, an error or the mark of an invalid
\* session.
MaxCallAttempts == 3     \* requests one call() may make
CallLimits == [BaseLimits EXCEPT !.calls = MaxCallAttempts]
InitCall == InitWith(CallLimits)

\* The caller calls call(), no other call() of theirs being under way.
Call ==
  /\ ~crashed
  /\ calls.settled # "pending"
  /\ Commit(CallBody([Cur EXCEPT !.calls = [NoCall EXCEPT !.settled = "pending"]]))

Outcomes == {"body", "error", "invalid"}

\* The server answers a request of call(), or the request fails.
CallAnswered ==
  \E outcome \in Outcomes :
    /\ ~crashed
    /\ calls.waiting > 0
    /\ LET S == [Cur EXCEPT !.calls.waiting = @ - 1]
       IN Commit(CASE outcome = "body" -> [S EXCEPT !.calls.settled = "resolved"]
                   [] outcome = "error" -> [S EXCEPT !.calls.settled = "rejected"]
                   [] OTHER -> InvalidSession(S))

NextCall ==
  \/ Call
  \/ CallAnswered
  \/ Authenticate
  \/ AuthenticateResolves
  \/ AuthenticateRejects
  \/ SecondFactorAsked
  \/ RenewalTimerFires
  \/ Disconnect
SpecCall == InitCall /\ [][NextCall]_vars

\* ---------------------------------------------------------- properties

Min(a, b) == IF a < b THEN a ELSE b

\* C10: the first call of _backoffCalc for an action records the time and
\* returns 0; a call e ms after the record returns min(2e + 500, 120000) when
\* e < 600000 and makes a new record only when it returns the cap; a call
\* with e >= 600000 makes a new record and returns 0; the result is within
\* 0 .. 120000; the record of another action is neither read nor written.
BackoffContract ==
  \A actionName \in ActionNames :
    LET ts == _backOffTimestamps[actionName]
        e == now - ts
        b == _backoffCalc(Cur, actionName)
        after == b.state._backOffTimestamps
    IN /\ ts = Null => b.schedDelay = 0 /\ after[actionName] = now
       /\ ts # Null /\ e < 600000 =>
            /\ b.schedDelay = Min(2 * e + 500, 120000)
            /\ after[actionName] \in {ts, now}
            /\ after[actionName] # ts => b.schedDelay = 120000
       /\ ts # Null /\ e >= 600000 => b.schedDelay = 0 /\ after[actionName] = now
       /\ b.schedDelay \in 0 .. 120000
       /\ b.state = [Cur EXCEPT !._backOffTimestamps[actionName] = after[actionName]]
       /\ \A other \in ActionNames \ {actionName} : \A t \in {Null, now, now - 1} :
            _backoffCalc([Cur EXCEPT !._backOffTimestamps[other] = t],
                         actionName).schedDelay = b.schedDelay

\* A call 59750 ms after the record returns the cap and keeps the record,
\* while another action's record is 600000 ms old.
BackoffAtCap ==
  \E actionName, other \in ActionNames :
    /\ _backOffTimestamps[actionName] = now - 59750
    /\ _backOffTimestamps[other] = now - 600000
    /\ _backoffCalc(Cur, actionName).schedDelay = 120000
    /\ _backoffCalc(Cur, actionName).state._backOffTimestamps[actionName] = now - 59750
    /\ _backoffCalc(Cur, other).schedDelay = 0

\* How often x occurs in a sequence.
Count(seq, x) == Cardinality({i \in 1 .. Len(seq) : seq[i] = x})

\* The frames a callback has sent that carry a message of this channel for this path.
Frames(S, channel, subscription) ==
  Cardinality({i \in 1 .. Len(S.sent) : /\ S.sent[i][1].channel = channel
                                         /\ S.sent[i][1].subscription = subscription})

\* C9: when disconnect() returns no renewal timer is pending, the session is
\* cleared (not authenticated, no security token, no push subscriptionId),
\* no caller listener is attached, the socket is terminated and dropped,
\* clientId is null, the transport is not connected and the registry is empty.
DisconnectClearsAll ==
  LET S == DisconnectBody(Cur)
  IN /\ ~S._reauthentication.pending
     /\ ~S._authenticated
     /\ S._securityToken = Null
     /\ S._pushSubscriptionId = Null
     /\ \A p \in Paths : S.listeners[p] = <<>>
     /\ _socket # Null => /\ ~S.sockets[_socket].attached
                          /\ S.sockets[_socket].readyState \in {"CLOSING", "CLOSED"}
     /\ S._socket = Null
     /\ S._socketClientId = Null
     /\ ~S._socketConnected
     /\ \A p \in Paths : ~S._socketSubscriptions[p].present

\* C3: after the function that subscribe() returned has been called for a
\* path, the path has no entry in the registry, connected or not; a
\* /meta/unsubscribe goes out only if the transport was connected.
UnsubscribeClearsEntry ==
  \A h \in Paths \X Callbacks :
    handles[h].live > 0 =>
      LET S == UnsubscribeBody(Cur, h[1], h[2])
      IN ~S.thrown =>
           /\ ~S._socketSubscriptions[h[1]].present
           /\ Len(S.sent) = Frames(S, "/meta/unsubscribe", h[1])
           /\ Len(S.sent) > 0 => _socketConnected

\* C2: two calls of subscribe() with the same channel and ids, nothing
\* happening in between, send one /meta/subscribe for the path at most; when
\* they send none the path is left desired and unconfirmed, for the next
\* connect to send the one.
SubscribeTwiceSendsOnce ==
  \A channel \in limits.channels, ids \in limits.ids, callback \in limits.callbacks :
    LET P == SubscriptionString(channel, Join(ids[2]))
        first == SubscribeBody(Cur, channel, ids, callback)
        second == SubscribeBody(first, channel, ids, callback)
    IN ~first.thrown =>
         /\ Frames(second, "/meta/subscribe", P) <= 1
         /\ Frames(second, "/meta/subscribe", P) = 0 =>
              second._socketSubscriptions[P] = [present |-> TRUE, value |-> Null]

\* The answers a server may give to a /meta/connect that make the client go on.
ConnectSuccesses(r) ==
  {[channel |-> "/meta/connect", successful |-> TRUE, advice |-> a,
    clientId |-> r.clientId, subscription |-> ""] :
     a \in {x \in Advices : ~x.present \/ (x.reconnect # "none" /\ ~(x.interval < 0))}}

\* The frames the server has still to answer on the sockets that listen.
Awaited(channel) ==
  {r \in pending : /\ r.channel = channel
                   /\ sockets[r.sock].attached
                   /\ sockets[r.sock].readyState = "OPEN"}

\* C1: after a restart made while N paths were desired and confirmed under the
\* clientId of the time, the next successful /meta/connect response is
\* followed by one /meta/subscribe for each of them that is still desired, and
\* by none for a path unsubscribed since the restart.
ResyncAfterRestart ==
  \A r \in Awaited("/meta/connect") : \A m \in ConnectSuccesses(r) :
    resync.active /\ ~_socketConnected =>
      LET S == _socketHandleMessage([Cur EXCEPT !.pending = @ \ {r}], <<m>>)
      IN /\ \A p \in resync.confirmed \ resync.unsubscribed :
              Frames(S, "/meta/subscribe", p) = 1
         /\ \A p \in resync.unsubscribed :
              Frames(S, "/meta/subscribe", p) = 0

\* The part of C1 about the paths unsubscribed since the restart.
ResyncSkipsUnsubscribed ==
  \A r \in Awaited("/meta/connect") : \A m \in ConnectSuccesses(r) :
    resync.active /\ ~_socketConnected =>
      LET S == _socketHandleMessage([Cur EXCEPT !.pending = @ \ {r}], <<m>>)
      IN \A p \in resync.unsubscribed : Frames(S, "/meta/subscribe", p) = 0

\* The delay that the catch of the renewal callback hands to setTimeout.
RenewalDelay(S) ==
  LET b == _backoffCalc(S, "authenticate")
  IN IF b.schedDelay # 0 THEN b.schedDelay
     ELSE _backoffCalc(b.state, "authenticate").schedDelay

\* C8: a renewal attempt that fails arms a new renewal timer, with a delay
\* that _backoffCalc('authenticate') gave; and from disconnect() until the
\* caller's next authenticate() no renewal timer is armed.
RenewalUntilDisconnect ==
  /\ authRequests["renewal"] > 0 =>
       LET S0 == AuthFailed([Cur EXCEPT !.authRequests["renewal"] = @ - 1])
           S == RenewalFailed(S0)
       IN /\ S._reauthentication.pending
          /\ S._reauthentication.delay = RenewalDelay(S0)
          /\ S._reauthentication.delay \in 1 .. MAX_BACKOFF_MS
  /\ disconnected => ~_reauthentication.pending

\* A failed /meta/handshake response.
HandshakeFailure(a) ==
  [channel |-> "/meta/handshake", successful |-> FALSE, advice |-> a,
   clientId |-> Null, subscription |-> ""]

\* The advice to handshake again.
Rehandshake(a) == a.present /\ a.reconnect = "handshake"

\* The state after the response m to the awaited frame r has been handled.
Answered(r, m) == _socketHandleMessage([Cur EXCEPT !.pending = @ \ {r}], <<m>>)

\* C6: a failed /meta/handshake response without the advice to handshake
\* again clears clientId, leaves the transport not connected, invalidates the
\* session's push subscriptionId and calls _scheduleReauth once, which arms
\* the renewal timer.
FatalHandshakeRejection ==
  \A r \in Awaited("/meta/handshake") : \A a \in Advices :
    ~Rehandshake(a) =>
      LET S == Answered(r, HandshakeFailure(a))
      IN /\ S._socketClientId = Null
         /\ ~S._socketConnected
         /\ S._pushSubscriptionId = Null
         /\ S.reauthCalls = 1
         /\ S._reauthentication.pending

\* A handshake is refused while the session is valid and no renewal is armed.
FatalHandshakeRejected ==
  \E r \in Awaited("/meta/handshake") :
    /\ _pushSubscriptionId # Null
    /\ ~_reauthentication.pending
    /\ LET S == Answered(r, HandshakeFailure(NoAdvice))
       IN S.reauthCalls = 1 /\ S._pushSubscriptionId = Null
                            /\ S._reauthentication.pending

\* What every failed handshake with the advice to handshake again leaves.
AfterAdvisedFailure(S) ==
  /\ ~S._socketConnected
  /\ S._socketClientId = Null
  /\ S.reauthCalls = 0
  /\ S.authRequests = authRequests
  /\ S.totpRequests = totpRequests
  /\ S._reauthentication = _reauthentication

\* The handshake timer, when it fires on an open socket, sends one handshake.
HandshakeTimerSends ==
  _socketHandshakeTimer /\ _socket # Null /\ sockets[_socket].readyState = "OPEN" =>
    Frames(_socketSend(Cur, HandshakeMessage(Cur)), "/meta/handshake", "") = 1

\* C5 as stated: after every failed /meta/handshake response that advises to
\* handshake again the transport is not connected, a new handshake is
\* scheduled, and neither _scheduleReauth nor authenticate has been called.
HandshakeRetriedAlways ==
  /\ HandshakeTimerSends
  /\ \A r \in Awaited("/meta/handshake") : \A a \in Advices :
       Rehandshake(a) =>
         LET S == Answered(r, HandshakeFailure(a))
         IN AfterAdvisedFailure(S) /\ S._socketHandshakeTimer

\* C5, amended: the same, but the new handshake is scheduled only while the
\* session holds a push subscriptionId; without one the response schedules
\* nothing.
HandshakeRetriedWhileValid ==
  /\ HandshakeTimerSends
  /\ \A r \in Awaited("/meta/handshake") : \A a \in Advices :
       Rehandshake(a) =>
         LET S == Answered(r, HandshakeFailure(a))
         IN /\ AfterAdvisedFailure(S)
            /\ _pushSubscriptionId # Null => S._socketHandshakeTimer
            /\ _pushSubscriptionId = Null =>
                 S._socketHandshakeTimer = _socketHandshakeTimer

\* A failed handshake that advises to handshake again arrives while the
\* session is valid and no handshake is scheduled; one is scheduled.
HandshakeRetried ==
  \E r \in Awaited("/meta/handshake") : \E a \in Advices :
    /\ Rehandshake(a)
    /\ _pushSubscriptionId # Null
    /\ ~_socketHandshakeTimer
    /\ Answered(r, HandshakeFailure(a))._socketHandshakeTimer
    /\ Answered(r, HandshakeFailure(a)).reauthCalls = 0

\* C7: a successful authenticate() that completes while a socket exists
\* terminates the socket, leaves the transport not connected and arms the
\* restart timer; and the transport is never connected under a clientId that
\* the server granted for another push subscriptionId than the session's.
ReauthRestartsTransport ==
  /\ \A origin \in Origins :
       authRequests[origin] > 0 /\ _socket # Null =>
         LET S == AuthSucceeded([Cur EXCEPT !.authRequests[origin] = @ - 1],
                                NextSession(Cur))
         IN /\ ~S.sockets[_socket].attached
            /\ S.sockets[_socket].readyState \in {"CLOSING", "CLOSED"}
            /\ ~S._socketConnected
            /\ S.restartTimers = restartTimers + 1
  /\ _socketConnected /\ _pushSubscriptionId # Null /\ clientGrant # Null =>
       clientGrant = _pushSubscriptionId

\* A socket is there to deliver the server's messages.
Listening == \E s \in SocketIds : sockets[s].attached /\ sockets[s].readyState = "OPEN"

\* A message on a path, as the server pushes it.
Data(path) ==
  [channel |-> path, successful |-> FALSE, advice |-> NoAdvice, clientId |-> Null,
   subscription |-> ""]

\* Every closure not yet called stands for one registration of its listener,
\* and a message on a path calls each listener of the path once for each of
\* its registrations, and no other listener.
DispatchToListeners ==
  /\ \A h \in Paths \X Callbacks : Count(listeners[h[1]], h[2]) = handles[h].live
  /\ \A p \in Paths :
       Listening =>
         LET S == _socketHandleMessage(Cur, <<Data(p)>>)
         IN \A h \in Paths \X Callbacks :
              Count(S.invoked, h) = IF h[1] = p THEN Count(listeners[p], h[2]) ELSE 0

InHotWindow(S, actionName) ==
  /\ S._backOffTimestamps[actionName] # Null
  /\ S.now - S._backOffTimestamps[actionName] < MAX_BACKOFF_MS * 5

FailedCleanly(S) ==
  /\ S.rejected
  /\ ~S.resolved
  /\ ~S._authenticated
  /\ S._securityToken = Null

\* C12: however authenticate() fails (credentials or a field missing, the
\* primary request rejected, a second-factor method other than TOTP, no
\* one-time code, the one-time code rejected), its promise rejects and the
\* session is left not authenticated, without security token.
AuthFailureClearsSession ==
  /\ \A credentials \in limits.credentials :
       ~CredentialsAccepted(credentials) =>
         FailedCleanly(AuthenticateBody(Cur, "caller", credentials))
  /\ \A origin \in Origins, request \in Requests :
       Waiting(Cur, origin, request) > 0 =>
         /\ FailedCleanly(Caught(Answer(Cur, origin, request), origin))
         /\ request # "code" =>
              /\ FailedCleanly(SecondFactor(Answer(Cur, origin, request), origin,
                                            request = "coded", "SMS"))
              /\ request = "plain" =>
                   FailedCleanly(SecondFactor(Answer(Cur, origin, request), origin,
                                              FALSE, "TOTP"))

\* A failed authenticate() that the caller made leaves the renewal timer as it
\* was and no request more in flight than those of other calls.
NotRetried(S, others) ==
  /\ S.rejected
  /\ S.reauthCalls = 0
  /\ S._reauthentication = _reauthentication
  /\ InFlight(S) = others

\* C13: a failure of an authenticate() that the caller made arms no renewal
\* timer and issues no authentication request; a failure of the authenticate()
\* that the renewal timer made arms the renewal timer again.
DirectFailureNotRetried ==
  /\ \A credentials \in limits.credentials :
       ~CredentialsAccepted(credentials) =>
         NotRetried(AuthenticateBody(Cur, "caller", credentials), InFlight(Cur))
  /\ \A request \in Requests :
       Waiting(Cur, "caller", request) > 0 =>
         /\ NotRetried(Caught(Answer(Cur, "caller", request), "caller"),
                       InFlight(Cur) - 1)
         /\ request # "code" =>
              NotRetried(SecondFactor(Answer(Cur, "caller", request), "caller",
                                      request = "coded", "SMS"), InFlight(Cur) - 1)
         /\ request = "plain" =>
              NotRetried(SecondFactor(Answer(Cur, "caller", request), "caller",
                                      FALSE, "TOTP"), InFlight(Cur) - 1)
  /\ \A request \in Requests :
       Waiting(Cur, "renewal", request) > 0 =>
         LET S == Caught(Answer(Cur, "renewal", request), "renewal")
         IN /\ S.rejected
            /\ S.reauthCalls = 1
            /\ S._reauthentication.pending
            /\ InFlight(S) = InFlight(Cur) - 1

\* The server rejects the one-time code of a call the caller made, while no
\* renewal timer is armed: none is armed afterwards and no request is in flight.
DirectFailureSeen ==
  /\ totpRequests["caller"].code = 1
  /\ InFlight(Cur) = 1
  /\ ~_reauthentication.pending
  /\ LET S == Caught(Answer(Cur, "caller", "code"), "caller")
     IN S.rejected /\ ~S._reauthentication.pending /\ InFlight(S) = 0

\* C14: while the session holds no push subscriptionId, subscribe() throws and
\* changes nothing (no listener, no socket, no registry entry, no frame), and
\* so does the function an earlier subscribe() returned.
UnauthenticatedCallsThrow ==
  _pushSubscriptionId = Null =>
    /\ \A channel \in limits.channels, ids \in limits.ids, callback \in limits.callbacks :
         SubscribeBody(Cur, channel, ids, callback) = [Cur EXCEPT !.thrown = TRUE]
    /\ \A h \in Paths \X Callbacks :
         UnsubscribeBody(Cur, h[1], h[2]) = [Cur EXCEPT !.thrown = TRUE]

\* The caller holds the function of a subscribe() made on a session that has
\* since lost its push subscriptionId, its socket and listener still there.
UnauthenticatedCallSeen ==
  \E h \in Paths \X Callbacks :
    /\ _pushSubscriptionId = Null
    /\ handles[h].live > 0
    /\ _socket # Null
    /\ listeners[h[1]] # <<>>
    /\ UnsubscribeBody(Cur, h[1], h[2]).thrown
    /\ SubscribeBody(Cur, "quotes", <<FALSE, <<"1">>>>, h[2]).thrown

\* C15: when the answer to the primary request asks for a second factor and
\* the call's credentials hold neither totp nor totpSecret, the promise
\* rejects and no second-factor request is issued.
NoCodeNoSecondFactorRequest ==
  /\ \A credentials \in limits.credentials :
       CredentialsAccepted(credentials) /\ ~credentials.totp /\ ~credentials.totpSecret =>
         LET S == AuthenticateBody(Cur, "caller", credentials)
         IN /\ S.authRequests["caller"] = authRequests["caller"] + 1
            /\ S.totpRequests = totpRequests
  /\ \A origin \in Origins : \A method \in Methods :
       authRequests[origin] > 0 =>
         LET S == SecondFactor(Answer(Cur, origin, "plain"), origin, FALSE, method)
         IN /\ S.rejected
            /\ ~S.resolved
            /\ S.totpRequests = totpRequests
            /\ InFlight(S) = InFlight(Cur) - 1

\* The caller's authenticate() without a one-time code is asked for TOTP, and
\* rejects with no request left in flight.
NoCodeRejected ==
  /\ authRequests["caller"] = 1
  /\ _credentials = PlainCredentials
  /\ LET S == SecondFactor(Answer(Cur, "caller", "plain"), "caller", FALSE, "TOTP")
     IN S.rejected /\ InFlight(S) = 0 /\ ~S._authenticated

\* The session as authenticate() leaves it.
Session(S) ==
  [securityToken |-> S._securityToken, pushSubscriptionId |-> S._pushSubscriptionId,
   customerId |-> S._customerId, authenticated |-> S._authenticated,
   credentials |-> S._credentials, renewal |-> S._reauthentication]

ArrayOfIdsIsOnePath ==
  \A channel \in limits.channels, callback \in limits.callbacks :
    _pushSubscriptionId # Null =>
      LET S == SubscribeBody(Cur, channel, <<TRUE, <<"1", "2">>>>, callback)
          P == "/" \o channel \o "/1,2"
      IN IF channel \in {"orders", "deals", "positions"}
         THEN /\ ~S.thrown
              /\ P \in Paths
              /\ S.listeners = [listeners EXCEPT ![P] = Append(@, callback)]
              /\ S._socketSubscriptions =
                   [_socketSubscriptions EXCEPT ![P] = [present |-> TRUE, value |-> Null]]
              /\ Len(S.sent) = Frames(S, "/meta/subscribe", P)
              /\ Len(S.sent) <= 1
         ELSE S = [Cur EXCEPT !.thrown = TRUE]

\* The caller has subscribed to orders with an array of ids: one listener on
\* '/orders/1,2', and a subscribe with the array on quotes throws.
ArrayOfIdsSeen ==
  /\ listeners["/orders/1,2"] = <<"cb1">>
  /\ _socketSubscriptions["/orders/1,2"].present
  /\ \A p \in Paths \ {"/orders/1,2"} :
       listeners[p] = <<>> /\ ~_socketSubscriptions[p].present
  /\ _pushSubscriptionId # Null
  /\ SubscribeBody(Cur, "quotes", <<TRUE, <<"1", "2">>>>, "cb1").thrown

\* C18: whenever the transport is connected, clientId is not null.
ConnectedHoldsClientId == _socketConnected => _socketClientId # Null

\* C19: _socketRestart leaves clientId null, and so the 'open' of a new socket
\* sends no /meta/connect: a handshake has to come first.
RestartInvalidatesClientId ==
  /\ _socket # Null => _socketRestart(Cur)._socketClientId = Null
  /\ \A s \in SocketIds :
       sockets[s].readyState = "CONNECTING" /\ sockets[s].attached =>
         LET S == _authenticateSocket([Cur EXCEPT !.sockets[s].readyState = "OPEN"], FALSE)
         IN /\ Frames(S, "/meta/connect", "") = 0
            /\ S._socketClientId = Null

\* The second half alone: what the 'open' of a new socket sends.
NewSocketHandshakesFirst ==
  \A s \in SocketIds :
    sockets[s].readyState = "CONNECTING" /\ sockets[s].attached =>
      Frames(_authenticateSocket([Cur EXCEPT !.sockets[s].readyState = "OPEN"], FALSE),
             "/meta/connect", "") = 0

\* C20: while the transport is not connected, no registry entry holds a
\* confirmation under the current clientId.
NoConfirmationUnlessConnected ==
  ~_socketConnected =>
    \A p \in Paths :
      ~(/\ _socketSubscriptions[p].present
        /\ _socketSubscriptions[p].value # Null
        /\ _socketSubscriptions[p].value = _socketClientId)

\* The path is confirmed under the current clientId.
Confirmed(p) ==
  /\ _socketSubscriptions[p].present
  /\ _socketSubscriptions[p].value # Null
  /\ _socketSubscriptions[p].value = _socketClientId

\* C21: the successful /meta/connect response that makes the transport
\* connected is followed by one /meta/subscribe for each desired path that is
\* not confirmed under the clientId, by none for any other path, and by none
\* for a path the connect handler has subscribed under this clientId before.
ResyncSendsWhatIsNeeded ==
  \A r \in Awaited("/meta/connect") : \A m \in ConnectSuccesses(r) :
    ~_socketConnected /\ r.sock = _socket =>
      LET S == Answered(r, m)
      IN /\ \A p \in Paths :
              Frames(S, "/meta/subscribe", p) =
                IF _socketSubscriptions[p].present /\ ~Confirmed(p) THEN 1 ELSE 0
         /\ _socketClientId # Null /\ resync.under = _socketClientId =>
              \A p \in resync.sent : Frames(S, "/meta/subscribe", p) = 0

\* The first half of C21 alone.
ResyncSendsUnconfirmed ==
  \A r \in Awaited("/meta/connect") : \A m \in ConnectSuccesses(r) :
    ~_socketConnected /\ r.sock = _socket =>
      \A p \in Paths :
        Frames(Answered(r, m), "/meta/subscribe", p) =
          IF _socketSubscriptions[p].present /\ ~Confirmed(p) THEN 1 ELSE 0

\* The second half of C21 alone.
ResyncSendsOncePerClientId ==
  \A r \in Awaited("/meta/connect") : \A m \in ConnectSuccesses(r) :
    /\ ~_socketConnected /\ r.sock = _socket
    /\ _socketClientId # Null /\ resync.under = _socketClientId
    =>
      \A p \in resync.sent : Frames(Answered(r, m), "/meta/subscribe", p) = 0

\* C22: at every moment at most one timer is pending for each purpose: one
\* renewal timer and one handshake timer (the fields hold one each), one
\* monitor interval, one restart timeout.
NoDuplicateTimers ==
  /\ restartTimers <= 1
  /\ (IF _socketMonitor THEN 1 ELSE 0) + leakedMonitors <= 1

\* The restart timeouts alone.
OneRestartTimer == restartTimers <= 1

\* The monitor intervals alone.
OneMonitor == (IF _socketMonitor THEN 1 ELSE 0) + leakedMonitors <= 1

\* The frames one callback sends, against the sequence counter it started
\* from: one message a frame, its id the counter of the moment, and the counter
\* one further for each frame that went out.
Enveloped(S) ==
  /\ \A i \in 1 .. Len(S.sent) :
       /\ Len(S.sent[i]) = 1
       /\ S.sent[i][1].id = Counted(_socketMessageCount + i - 1)
  /\ S._socketMessageCount = Counted(_socketMessageCount + Len(S.sent))

\* The /meta/handshake of the handshake timer.
EnvelopeOfHandshake ==
  _socketHandshakeTimer =>
    LET S1 == [Cur EXCEPT !._socketHandshakeTimer = FALSE]
    IN Enveloped(_socketSend(S1, HandshakeMessage(S1)))

\* The frames of every other callback: /meta/connect, /meta/subscribe and
\* /meta/unsubscribe.
EnvelopeOfTheRest ==
  /\ \A r \in pending : \A m \in Responses(Cur, r) :
       sockets[r.sock].attached /\ sockets[r.sock].readyState = "OPEN" =>
         Enveloped(Answered(r, m))
  /\ \A s \in SocketIds :
       sockets[s].attached /\ sockets[s].readyState = "CONNECTING" =>
         Enveloped(_authenticateSocket([Cur EXCEPT !.sockets[s].readyState = "OPEN"], FALSE))
  /\ \A channel \in limits.channels, ids \in limits.ids, callback \in limits.callbacks :
       Enveloped(SubscribeBody(Cur, channel, ids, callback))
  /\ \A h \in Paths \X Callbacks : Enveloped(UnsubscribeBody(Cur, h[1], h[2]))

\* C23: every frame sent is an array of one message; every message, whether
\* handshake, connect, subscribe or unsubscribe, carries as id the sequence
\* counter of the moment; the counter goes up by one for each frame sent and
\* stays as it is when a send is dropped.
OutboundEnvelope == EnvelopeOfHandshake /\ EnvelopeOfTheRest

\* C24: at every tick of the monitor while the session is authenticated, a
\* socket that is not open, or a last successful /meta/connect response older
\* than the advice timeout and the grace, forces a restart, whatever the state
\* of the transport.
MonitorUnconditional ==
  /\ _socketMonitor
  /\ _authenticated /\ _pushSubscriptionId # Null
  /\ _socket # Null
  /\ \/ sockets[_socket].readyState # "OPEN"
     \/ _socketLastMetaConnect + AdviceTimeout + MonitorGrace < now
  => MonitorCallback(Cur).restartTimers = restartTimers + 1

\* The same of a transport that is connected.
MonitorWhileConnected ==
  /\ _socketMonitor
  /\ _authenticated /\ _pushSubscriptionId # Null
  /\ _socket # Null
  /\ \/ sockets[_socket].readyState # "OPEN"
     \/ _socketConnected /\ _socketLastMetaConnect + AdviceTimeout + MonitorGrace < now
  => MonitorCallback(Cur).restartTimers = restartTimers + 1

\* The transport has left Connected for a new handshake: clientId cleared, the
\* handshake timer armed and no further /meta/connect sent.
Rehandshaking(S) ==
  /\ ~S._socketConnected
  /\ S._socketClientId = Null
  /\ S._socketHandshakeTimer
  /\ Frames(S, "/meta/connect", "") = 0

\* C25: every /meta/connect response that is unsuccessful, or whose advice
\* asks for a handshake, makes the transport leave Connected, clear clientId
\* and schedule a new handshake instead of sending another /meta/connect.
ConnectRejectionRehandshakes ==
  \A r \in Awaited("/meta/connect") : \A m \in Responses(Cur, r) :
    r.sock = _socket /\ (~m.successful \/ Rehandshake(m.advice)) =>
      Rehandshaking(Answered(r, m))

\* The same of the unsuccessful responses received while a clientId and a
\* push subscriptionId are held.
ConnectFailureRehandshakes ==
  \A r \in Awaited("/meta/connect") : \A m \in Responses(Cur, r) :
    /\ r.sock = _socket
    /\ ~m.successful
    /\ _socketClientId # Null
    /\ _pushSubscriptionId # Null
    => Rehandshaking(Answered(r, m))

\* C26: the acknowledgment of a /meta/subscribe that was sent under another
\* clientId than the current one never marks its path as confirmed under the
\* current clientId.
StaleAcknowledgmentIgnored ==
  \A r \in Awaited("/meta/subscribe") : \A m \in Responses(Cur, r) :
    /\ m.successful
    /\ _socketClientId # Null
    /\ r.clientId # _socketClientId
    => LET S == Answered(r, m)
       IN ~(/\ S._socketSubscriptions[r.subscription].present
            /\ S._socketSubscriptions[r.subscription].value = S._socketClientId)

\* C27: after disconnect(), and until the caller authenticates again, there
\* is no socket and no monitor, and a handshake timer that was pending sends
\* nothing when it fires.
DisconnectIsFinal ==
  disconnected =>
    /\ _socket = Null
    /\ ~_socketMonitor
    /\ _socketHandshakeTimer =>
         LET S1 == [Cur EXCEPT !._socketHandshakeTimer = FALSE]
         IN _socketSend(S1, HandshakeMessage(S1)).sent = <<>>

\* The same while no renewal has brought a session back.
DisconnectIsFinalUnrenewed ==
  disconnected /\ _pushSubscriptionId = Null =>
    /\ _socket = Null
    /\ ~_socketMonitor

\* What follows the 'close' of the socket with no call of the caller: the
\* restart, its timeout, the 'open' of the new socket, the handshake timer.
AfterClose == _socketRestart([Cur EXCEPT !.sockets[_socket].readyState = "CLOSED"])
AfterRestartTimer == _socketInit([AfterClose EXCEPT !.restartTimers = @ - 1], TRUE)
AfterOpen ==
  _authenticateSocket(
    [AfterRestartTimer EXCEPT !.sockets[AfterRestartTimer._socket].readyState = "OPEN"],
    FALSE)
AfterHandshakeTimer ==
  _socketSend([AfterOpen EXCEPT !._socketHandshakeTimer = FALSE],
              HandshakeMessage(AfterOpen))

\* The recovery itself: a restart timeout is armed, it creates a new socket
\* with the handlers attached, the 'open' of that socket arms the handshake
\* timer, which sends a /meta/handshake on it; authenticate() is never called.
Recovers ==
  /\ AfterClose.restartTimers = restartTimers + 1
  /\ ~AfterRestartTimer.overBound =>
       /\ AfterRestartTimer.sockets[AfterRestartTimer._socket] =
            [readyState |-> "CONNECTING", attached |-> TRUE]
       /\ AfterOpen._socketHandshakeTimer
       /\ Frames(AfterHandshakeTimer, "/meta/handshake", "") = 1
       /\ AfterHandshakeTimer.sent[Len(AfterHandshakeTimer.sent)][1].ext = _pushSubscriptionId
       /\ AfterHandshakeTimer.reauthCalls = 0

\* C28: after the 'close' of the socket while the session is authenticated, a
\* new socket is created when the restart timeout fires and a handshake is
\* attempted on it, with no call of the caller and none of authenticate().
TransientFailureRecovers ==
  _socket # Null /\ _authenticated /\ _pushSubscriptionId # Null => Recovers

\* The same of a transport that holds no clientId when the socket closes.
TransientFailureRecoversUnassigned ==
  /\ _socket # Null /\ _authenticated /\ _pushSubscriptionId # Null
  /\ _socketClientId = Null
  => Recovers

\* The sockets whose handlers are attached.
Attached == {s \in SocketIds : sockets[s].attached}

\* C29: under every interleaving at most one socket has its handlers attached
\* and at most one monitor interval is running.
OneSocketOneMonitor ==
  /\ Cardinality(Attached) <= 1
  /\ (IF _socketMonitor THEN 1 ELSE 0) + leakedMonitors <= 1

\* The sockets alone.
OneSocketAttached == Cardinality(Attached) <= 1

\* C30: every /meta/handshake sent carries in its ext the push subscriptionId
\* the session holds, and none is sent while the session holds none, even
\* when the handshake timer was armed while it held one.
HandshakeCarriesSubscriptionId ==
  _socketHandshakeTimer =>
    LET S1 == [Cur EXCEPT !._socketHandshakeTimer = FALSE]
        S == _socketSend(S1, HandshakeMessage(S1))
    IN /\ \A i \in 1 .. Len(S.sent) : S.sent[i][1].ext = _pushSubscriptionId
       /\ _pushSubscriptionId = Null => S.sent = <<>>

\* C31: a subscribe() made while the transport is not connected sends no
\* /meta/subscribe at the call, and, unless the path is unsubscribed in
\* between, one /meta/subscribe for the path is sent when the transport next
\* becomes connected.
DeferredSubscribe ==
  ~_socketConnected =>
    /\ \A channel \in limits.channels, ids \in limits.ids, callback \in limits.callbacks :
         SubscribeBody(Cur, channel, ids, callback).sent = <<>>
    /\ \A r \in Awaited("/meta/connect") : \A m \in ConnectSuccesses(r) :
         r.sock = _socket =>
           \A p \in resync.deferred : Frames(Answered(r, m), "/meta/subscribe", p) = 1

\* The same of a transport that holds a clientId, and of paths whose entry no
\* acknowledgment has touched since the subscribe().
DeferredSubscribeUnderClientId ==
  ~_socketConnected /\ _socketClientId # Null =>
    \A r \in Awaited("/meta/connect") : \A m \in ConnectSuccesses(r) :
      r.sock = _socket =>
        \A p \in resync.deferred :
          _socketSubscriptions[p] = [present |-> TRUE, value |-> Null] =>
            Frames(Answered(r, m), "/meta/subscribe", p) = 1

\* A handshake was refused for good and no authentication has completed
\* since: the session is still marked authenticated and holds no push
\* subscriptionId.
Refused == _authenticated /\ _pushSubscriptionId = Null

\* Nothing is sent while refused, whatever callback runs.
SilentWhileRefused ==
  Refused =>
    /\ _socketHandshakeTimer =>
         LET S1 == [Cur EXCEPT !._socketHandshakeTimer = FALSE]
         IN _socketSend(S1, HandshakeMessage(S1)).sent = <<>>
    /\ \A r \in pending : \A m \in Responses(Cur, r) :
         sockets[r.sock].attached /\ sockets[r.sock].readyState = "OPEN" =>
           Answered(r, m).sent = <<>>
    /\ \A s \in SocketIds :
         sockets[s].attached /\ sockets[s].readyState = "CONNECTING" =>
           _authenticateSocket([Cur EXCEPT !.sockets[s].readyState = "OPEN"], FALSE).sent
             = <<>>
    /\ \A channel \in limits.channels, ids \in limits.ids, callback \in limits.callbacks :
         SubscribeBody(Cur, channel, ids, callback).sent = <<>>

\* What follows a renewal that succeeds while refused: the restart, its
\* timeout, the 'open' of the new socket, the handshake timer, the server's
\* acceptance of the handshake and its successful answer to the connect.
AfterRenewal ==
  AuthSucceeded([Cur EXCEPT !.authRequests["renewal"] = @ - 1], NextSession(Cur))
RenewedSocket == _socketInit([AfterRenewal EXCEPT !.restartTimers = @ - 1], TRUE)
RenewedOpen ==
  _authenticateSocket(
    [RenewedSocket EXCEPT !.sockets[RenewedSocket._socket].readyState = "OPEN"], FALSE)
RenewedHandshake ==
  _socketSend([RenewedOpen EXCEPT !._socketHandshakeTimer = FALSE],
              HandshakeMessage(RenewedOpen))
RenewedAccepted ==
  HandleMessage([RenewedHandshake EXCEPT !.sent = <<>>],
                [channel |-> "/meta/handshake", successful |-> TRUE, advice |-> NoAdvice,
                 clientId |-> CHOOSE c \in FreeClientIds(RenewedHandshake) : TRUE,
                 subscription |-> ""])
RenewedConnected ==
  HandleMessage([RenewedAccepted EXCEPT !.sent = <<>>],
                [channel |-> "/meta/connect", successful |-> TRUE, advice |-> NoAdvice,
                 clientId |-> RenewedAccepted._socketClientId, subscription |-> ""])

\* The renewal restarts the transport, the new socket handshakes with the new
\* push subscriptionId, and once connected every path of the registry is
\* subscribed again.
RecoversByRenewal ==
  /\ Refused /\ authRequests["renewal"] > 0 /\ _socket # Null
  /\ ~RenewedSocket.overBound /\ FreeClientIds(RenewedHandshake) # {}
  => /\ AfterRenewal.restartTimers = restartTimers + 1
     /\ ~AfterRenewal.sockets[_socket].attached
     /\ RenewedOpen._socketHandshakeTimer
     /\ RenewedOpen.sent = <<>>
     /\ Frames(RenewedHandshake, "/meta/handshake", "") = 1
     /\ RenewedHandshake.sent[Len(RenewedHandshake.sent)][1].ext = NextSession(Cur)
     /\ Frames(RenewedAccepted, "/meta/connect", "") = 1
     /\ RenewedConnected._socketConnected
     /\ \A p \in Paths :
          _socketSubscriptions[p].present =>
            Frames(RenewedConnected, "/meta/subscribe", p) = 1

\* C32: after a handshake failure without the advice to handshake again, no
\* handshake, connect or subscribe message is sent until an authentication
\* completes; once a renewal succeeds the transport restarts, handshakes with
\* the new push subscriptionId and, the handshake and the connect accepted,
\* subscribes again every path still desired.
RefusalRecovery == SilentWhileRefused /\ RecoversByRenewal

\* C33: when the function subscribe() returned is called for a path that
\* another listener of the caller is still registered for, the path keeps its
\* entry in the registry and no /meta/unsubscribe is sent for it.
SharedPathStaysSubscribed ==
  \A h \in Paths \X Callbacks :
    handles[h].live > 0 =>
      LET S == UnsubscribeBody(Cur, h[1], h[2])
      IN ~S.thrown /\ S.listeners[h[1]] # <<>> =>
           /\ S._socketSubscriptions[h[1]].present
           /\ Frames(S, "/meta/unsubscribe", h[1]) = 0

\* The entry alone, at the call.
SharedPathKeepsEntry ==
  \A h \in Paths \X Callbacks :
    handles[h].live > 0 /\ _socketSubscriptions[h[1]].present =>
      LET S == UnsubscribeBody(Cur, h[1], h[2])
      IN ~S.thrown /\ S.listeners[h[1]] # <<>> => S._socketSubscriptions[h[1]].present

\* The /meta/connect frames a callback has sent.
ConnectFrames(S) ==
  {i \in 1 .. Len(S.sent) : S.sent[i][1].channel = "/meta/connect"}

\* C34: every successful /meta/connect response whose advice does not forbid
\* to reconnect is followed by exactly one new /meta/connect carrying the
\* current clientId, and the time of the last successful connect is set to the
\* current time as the transport is marked connected.
HeartbeatStep ==
  \A r \in Awaited("/meta/connect") : \A m \in ConnectSuccesses(r) :
    LET S == Answered(r, m)
    IN /\ Cardinality(ConnectFrames(S)) = 1
       /\ \A i \in ConnectFrames(S) : S.sent[i][1].clientId = _socketClientId
       /\ S._socketLastMetaConnect = now
       /\ S._socketConnected

\* A step that makes the transport connected is the handling of such a
\* response: no other event marks the transport connected.
ConnectedByHeartbeatOnly ==
  [][~_socketConnected /\ _socketConnected' =>
       \E r \in Awaited("/meta/connect") : \E m \in ConnectSuccesses(r) :
         LET S == Collect(Answered(r, m))
         IN /\ _socketLastMetaConnect' = S._socketLastMetaConnect
            /\ _socketSubscriptions' = S._socketSubscriptions
            /\ _socketMessageCount' = S._socketMessageCount
            /\ _socketClientId' = S._socketClientId
            /\ pending' = S.pending
            /\ sockets' = S.sockets]_vars

\* The handler of the 'error' or 'close' of the socket s has run.
AfterFailureOf(s) ==
  _socketRestart([Cur EXCEPT !.sockets[s].readyState = Terminate(@)])

\* C35: once _socketRestart has run for the failure of a socket, the socket
\* has no handler left, so that its later close, error and message events
\* change nothing, send nothing and restart nothing: one failure, one restart.
RestartedSocketInert ==
  \A s \in SocketIds :
    sockets[s].attached /\ sockets[s].readyState \in {"CONNECTING", "OPEN"} =>
      /\ ~AfterFailureOf(s).crashed
      /\ ~AfterFailureOf(s).sockets[s].attached
      /\ AfterFailureOf(s).restartTimers = restartTimers + 1

\* C36: one call() makes at most one re-authentication and one retry of its
\* request, whatever the server answers, so that its promise settles.
CallReauthenticatesOnce ==
  /\ calls.reauths <= 1
  /\ calls.attempts <= 2

\* An answer marked invalid clears the session before the re-authentication.
InvalidSessionClears ==
  calls.waiting > 0 =>
    LET S == InvalidSession([Cur EXCEPT !.calls.waiting = @ - 1])
    IN /\ ~S._authenticated
       /\ S._securityToken = Null
       /\ InFlight(S) = InFlight(Cur) + 1 \/ S.calls.settled = "rejected"

====
